---- MODULE Spec2Model ----
(***************************************************************************)
(* Model of the notebook ode_nn_2ndorder.ipynb: a feed-forward network is  *)
(* trained twice (swish activation, then sine activation) with autograd's  *)
(* adam to satisfy y'' = -k^2 y, and the two fits are plotted.             *)
(*                                                                         *)
(* Numbers.  The notebook computes in floating point.  Here every real     *)
(* number is a fixed-point integer counting thousandths (Unit = 1000 is    *)
(* 1.0; one unit is the step size 0.001).  Products and quotients are      *)
(* rounded to a whole unit, exp and sin are computed by range reduction     *)
(* and a polynomial / rational approximation on the same grid.  The        *)
(* derivatives that autograd produces are written out by the chain rule.   *)
(*                                                                         *)
(* Sizes.  The hidden width (100) and the grid (50 points) are reduced;     *)
(* the iteration count 4000 and the print period 1000 are kept.            *)
(***************************************************************************)
EXTENDS Integers, Sequences, FiniteSets, TLC

(***************************************************************************)
(* Bounds of the model.                                                    *)
(***************************************************************************)
\* number of collocation points of the grid t (50 in the notebook)
GridLen == 2
\* the short runs explore hidden widths 1..MaxWidth
MaxWidth == 2
\* iteration counts 0..MaxIters are explored besides the notebook's 4000
MaxIters == 3

(***************************************************************************)
(* Fixed-point arithmetic.                                                 *)
(***************************************************************************)
Unit == 1000

\* a*b/c for a, b >= 0 and c > 0, rounded to nearest, without forming a*b when
\* a is large
MulDivNat(a, b, c) == (a \div c) * b + ((a % c) * b + c \div 2) \div c

\* products and quotients of fixed-point numbers, rounded to nearest
Mul(a, b) == (a * b + Unit \div 2) \div Unit

Div(a, b) ==
  IF b > 0 THEN (a * Unit + b \div 2) \div b
  ELSE ((-a) * Unit + (-b) \div 2) \div (-b)

Sq(a) == Mul(a, a)

\* an array given by its entries, stored entry by entry
Arr(f) == f \o <<>>

RECURSIVE SumSeq(_)
SumSeq(s) == IF s = <<>> THEN 0 ELSE Head(s) + SumSeq(Tail(s))

RECURSIVE SqrtSearch(_, _, _)
SqrtSearch(n, lo, hi) ==
  IF hi - lo <= 1 THEN lo
  ELSE LET mid == (lo + hi) \div 2
       IN IF mid * mid <= n THEN SqrtSearch(n, mid, hi) ELSE SqrtSearch(n, lo, mid)

\* largest r with r*r <= n
ISqrt(n) == SqrtSearch(n, 0, 46341)

\* b**n by repeated squaring
RECURSIVE Pow(_, _)
Pow(b, n) ==
  IF n = 0 THEN Unit
  ELSE IF n % 2 = 0 THEN Sq(Pow(b, n \div 2))
  ELSE Mul(b, Pow(b, n - 1))

(***************************************************************************)
(* math.pi, np.exp, np.sin.                                                *)
(***************************************************************************)
Pi == 3142

TwoPi == 6283

\* e^n for n = 0..13, in units
ExpTable == <<1000, 2718, 7389, 20086, 54598, 148413, 403429, 1096633,
              2980958, 8103084, 22026466, 59874142, 162754791, 442413392>>

\* exp of a non-negative argument; saturates just below e^14
ExpPos(a) ==
  LET sat == a >= 14 * Unit
      n == IF sat THEN 13 ELSE a \div Unit
      r == IF sat THEN Unit - 1 ELSE a % Unit
      r2 == Sq(r)
      r3 == Mul(r2, r)
      frac == Unit + r + r2 \div 2 + r3 \div 6 + Mul(r3, r) \div 24
                   + Mul(Mul(r3, r), r) \div 120
  IN IF n >= 7 THEN (ExpTable[n + 1] \div Unit) * frac
     ELSE (ExpTable[n + 1] * frac) \div Unit

exp(a) == IF a < 0 THEN (Unit * Unit) \div ExpPos(-a) ELSE ExpPos(a)

\* Bhaskara's approximation of sin on [0, pi]
SinHalf(r) ==
  LET p == r * (Pi - r)
  IN (16 * p) \div ((5 * Pi * Pi - 4 * p) \div Unit)

sin(a) ==
  LET r == a % TwoPi
  IN IF r <= Pi THEN SinHalf(r) ELSE -SinHalf(r - Pi)

cos(a) == sin(a + Pi \div 2)

(***************************************************************************)
(* The activation functions of the first code cell.                       *)
(***************************************************************************)
sigmoid(a) == Div(Unit, Unit + exp(-a))

swish(a) == Div(a, Unit + exp(-a))

periodic(a) == sin(a)

Act(name, a) == IF name = "swish" THEN swish(a) ELSE periodic(a)

\* swish(a) with its first and second derivative, as elementwise_grad takes
\* them: with s = 1/(1 + exp(-a)), swish' = s + a*s*(1 - s) and
\* swish'' = s*(1 - s)*(2 + a*(1 - 2*s))
swish_jet(a) ==
  LET e == exp(-a)
      s == Div(Unit, Unit + e)
  IN << Div(a, Unit + e),
        s + Mul(Mul(a, s), Unit - s),
        Mul(Mul(s, Unit - s), 2 * Unit + Mul(a, Unit - 2 * s)) >>

\* periodic(a) with its first and second derivative: sin, cos, -sin
periodic_jet(a) ==
  LET sn == sin(a) IN <<sn, cos(a), -sn>>

ActJet(name, a) == IF name = "swish" THEN swish_jet(a) ELSE periodic_jet(a)

(***************************************************************************)
(* Program constants of the training cell.                                 *)
(***************************************************************************)
\* k = 1
k == 1

\* scale = 0.1
scale == 100

\* step_size = 0.001
step_size == 1

\* num_iters = 4000
num_iters_notebook == 4000

\* the callback prints when step % 1000 == 0
PrintEvery == 1000

\* adam's defaults b1 = 0.9, b2 = 0.999; eps = 10**-8 is below one unit and is
\* kept as the smallest positive number of the grid
b1 == 900

b2 == 999

eps == 1

(***************************************************************************)
(* npr.RandomState(seed).randn: the stream of seed 0 (its first twenty     *)
(* variates, continued periodically); another seed starts elsewhere in it. *)
(***************************************************************************)
RandnTable == <<1764, 400, 979, 2241, 1868, -977, 950, -151, -103, 411,
                144, 1454, 761, 122, 444, 334, 1494, -205, 313, -854>>

\* the pos-th variate drawn from RandomState(seed), pos = 1, 2, ...
randn(seed, pos) == RandnTable[((pos - 1 + 7 * seed) % Len(RandnTable)) + 1]

(***************************************************************************)
(* Arrays: a vector is a sequence, a matrix a sequence of rows.            *)
(***************************************************************************)
Rows(M) == Len(M)

Cols(M) == IF Len(M) = 0 THEN 0 ELSE Len(M[1])

zeros(n) == Arr([j \in 1..n |-> 0])

\* np.linspace(start, stop, num)
linspace(start, stop, num) ==
  Arr([n \in 1..num |-> start + ((stop - start) * (n - 1)) \div (num - 1)])

\* v.reshape((-1, 1))
reshape_column(v) == Arr([n \in 1..Len(v) |-> <<v[n]>>])

\* the number of variates the layers before layer n have drawn
RECURSIVE DrawsBefore(_, _)
DrawsBefore(layer_sizes, n) ==
  IF n = 1 THEN 0
  ELSE DrawsBefore(layer_sizes, n - 1)
       + layer_sizes[n - 1] * layer_sizes[n] + layer_sizes[n]

\* weight matrices drawn with rows and columns exchanged
init_nn_transposed(seed, sc, layer_sizes) ==
  Arr([n \in 1..(Len(layer_sizes) - 1) |->
     LET insize == layer_sizes[n]
         outsize == layer_sizes[n + 1]
         off == DrawsBefore(layer_sizes, n)
     IN << Arr([r \in 1..outsize |->
              Arr([c \in 1..insize |-> Mul(randn(seed, off + (r - 1) * insize + c), sc)])]),
           Arr([c \in 1..outsize |-> Mul(randn(seed, off + insize * outsize + c), sc)]) >>])

\* the body of setup_init_nn for a generator seeded with seed: per layer, the
\* weight matrix is drawn first (row by row), then the bias vector
init_nn_seeded(seed, sc, layer_sizes) ==
  Arr([n \in 1..(Len(layer_sizes) - 1) |->
     LET insize == layer_sizes[n]
         outsize == layer_sizes[n + 1]
         off == DrawsBefore(layer_sizes, n)
     IN << Arr([r \in 1..insize |->
              Arr([c \in 1..outsize |-> Mul(randn(seed, off + (r - 1) * outsize + c), sc)])]),
           Arr([c \in 1..outsize |-> Mul(randn(seed, off + insize * outsize + c), sc)]) >>])

(***************************************************************************)
(* The forward model and its input-derivatives.  A jet <<y, y', y''>>      *)
(* carries a value with its first and second derivative with respect to    *)
(* the network input of the same row; elementwise_grad(f, 1) of a function *)
(* whose rows are independent is the row-wise derivative.                  *)
(***************************************************************************)
\* the input itself: value a, derivative 1, second derivative 0
Lift(inputs) == Arr([r \in 1..Rows(inputs) |-> Arr([c \in 1..Cols(inputs) |-> <<inputs[r][c], Unit, 0>>])])

Component(J, d) == Arr([r \in 1..Rows(J) |-> Arr([c \in 1..Cols(J) |-> J[r][c][d]])])

\* np.dot(inputs, W) + b, on jets
Affine(J, W, b) ==
  Arr([r \in 1..Rows(J) |->
     Arr([c \in 1..Cols(W) |->
        << SumSeq(Arr([j \in 1..Rows(W) |-> Mul(J[r][j][1], W[j][c])])) + b[c],
           SumSeq(Arr([j \in 1..Rows(W) |-> Mul(J[r][j][2], W[j][c])])),
           SumSeq(Arr([j \in 1..Rows(W) |-> Mul(J[r][j][3], W[j][c])])) >>])])

\* act(outputs), on jets (chain rule)
Activate(act, J) ==
  Arr([r \in 1..Rows(J) |->
     Arr([c \in 1..Cols(J) |->
        LET f == ActJet(act, J[r][c][1])
            d1 == J[r][c][2]
            d2 == J[r][c][3]
        IN << f[1], Mul(f[2], d1), Mul(f[3], Sq(d1)) + Mul(f[2], d2) >>])])

\* the loop "for W, b in params": the locals after layers n.. have run
RECURSIVE Layers(_, _, _, _)
Layers(act, params, n, locals) ==
  IF n > Len(params) THEN locals
  ELSE LET outputs == Affine(locals.inputs, params[n][1], params[n][2])
       IN Layers(act, params, n + 1,
                 [outputs |-> outputs, inputs |-> Activate(act, outputs)])

\* a forward model that returns the activated value of the last layer
Forward_activated(act, params, inputs) ==
  Layers(act, params, 1, [outputs |-> <<>>, inputs |-> Lift(inputs)]).inputs

\* what the function returns: the local "outputs" after the loop
Forward(act, params, inputs) ==
  Layers(act, params, 1, [outputs |-> <<>>, inputs |-> Lift(inputs)]).outputs

ode_func(params, inputs) == Component(Forward("swish", params, inputs), 1)

ode_func_periodic(params, inputs) == Component(Forward("periodic", params, inputs), 1)

deriv_ode_func(params, inputs) == Component(Forward("swish", params, inputs), 2)

deriv_2_ode_func(params, inputs) == Component(Forward("swish", params, inputs), 3)

deriv_ode_func_periodic(params, inputs) == Component(Forward("periodic", params, inputs), 2)

deriv_2_ode_func_periodic(params, inputs) == Component(Forward("periodic", params, inputs), 3)

\* the scalar input 0.0: np.dot(0.0, W) with a one-row W is the row 0.0*W
Scalar(a) == <<<<a>>>>

\* np.mean of a column of numbers
mean(col) == SumSeq(col) \div Len(col)

\* a forward model that writes the activations into its argument
inputs_after_call_inplace(params, inputs) ==
  Component(Layers("swish", params, 1, [outputs |-> <<>>, inputs |-> Lift(inputs)]).inputs, 1)

\* a forward model that clears the biases of the parameter set it is given
params_after_call_inplace(params, inputs) ==
  Arr([n \in 1..Len(params) |-> <<params[n][1], zeros(Len(params[n][2]))>>])

\* the caller's array after a call of a forward model: the loop rebinds its
\* local name "inputs", it writes into neither the array nor params
inputs_after_call(params, inputs) == inputs

params_after_call(params, inputs) == params

\* a loss with the residual of y(0) = 0 added
residual_loss_with_y0(Jt, J0) ==
  LET zeq == Arr([r \in 1..Rows(Jt) |-> Jt[r][1][3] + k * k * Jt[r][1][1]])
      ic0 == J0[1][1][1]
      ic == J0[1][1][2] - k * Unit
      ic2 == J0[1][1][3]
  IN mean(Arr([r \in 1..Len(zeq) |-> Sq(zeq[r])])) + Sq(ic0) + Sq(ic) + Sq(ic2)

\* the body shared by objective and objective_periodic, on the jets Jt of the
\* forward model over the grid t and J0 of the forward model at 0.0:
\*   zeq = y''(t) + k*k * y(t);  ic = y'(0.0) - k;  ic2 = y''(0.0)
\*   return np.mean(zeq**2) + ic**2 + ic2**2
residual_loss(Jt, J0) ==
  LET zeq == Arr([r \in 1..Rows(Jt) |-> Jt[r][1][3] + k * k * Jt[r][1][1]])
      ic == J0[1][1][2] - k * Unit
      ic2 == J0[1][1][3]
  IN mean(Arr([r \in 1..Len(zeq) |-> Sq(zeq[r])])) + Sq(ic) + Sq(ic2)

\* objective(params, step); the global t it reads is passed as grid
objective(params, step, grid) ==
  residual_loss(Forward("swish", params, grid), Forward("swish", params, Scalar(0)))

\* objective_periodic(params, step); the global t it reads is passed as grid
objective_periodic(params, step, grid) ==
  residual_loss(Forward("periodic", params, grid), Forward("periodic", params, Scalar(0)))

(***************************************************************************)
(* autograd: flatten / unflatten of a parameter set, and grad.             *)
(***************************************************************************)
RECURSIVE Concat(_)
Concat(ss) == IF ss = <<>> THEN <<>> ELSE Head(ss) \o Concat(Tail(ss))

\* the entries of all arrays in order: per layer the weight rows, then the bias
flatten(params) ==
  Concat(Arr([n \in 1..Len(params) |-> Concat(params[n][1]) \o params[n][2]]))

\* the layer sizes a parameter set was built for
ShapeOf(params) ==
  <<Rows(params[1][1])>> \o Arr([n \in 1..Len(params) |-> Len(params[n][2])])

\* the inverse of flatten for parameter sets shaped like "like"
unflatten(vec, like) ==
  LET ls == ShapeOf(like)
  IN Arr([n \in 1..(Len(ls) - 1) |->
        LET insize == ls[n]
            outsize == ls[n + 1]
            off == DrawsBefore(ls, n)
        IN << Arr([r \in 1..insize |-> Arr([c \in 1..outsize |-> vec[off + (r - 1) * outsize + c]])]),
              Arr([c \in 1..outsize |-> vec[off + insize * outsize + c]]) >>])

\* the loss of a training run: run "swish" minimizes objective, run "periodic"
\* minimizes objective_periodic
Loss(run, params, step, t) ==
  IF run = "swish" THEN objective(params, step, t)
  ELSE objective_periodic(params, step, t)

\* the width of the difference quotient that stands for the derivative
grad_h == 50

\* grad(loss)(params, step): the value of the loss (the forward pass) and its
\* derivative with respect to every parameter, shaped like params
value_and_grad(run, params, step, grid) ==
  LET vec == flatten(params)
      value == Loss(run, params, step, grid)
      shifted(j) == unflatten([vec EXCEPT ![j] = @ + grad_h], params)
  IN [value |-> value,
      grad |-> unflatten(Arr([j \in 1..Len(vec) |->
                                Div(Loss(run, shifted(j), step, grid) - value, grad_h)]),
                         params)]

(***************************************************************************)
(* autograd.misc.optimizers.adam, one iteration of its loop.  The second   *)
(* moment v holds squares and is kept in squared units.                    *)
(***************************************************************************)
adam_m(m, g) == Arr([j \in 1..Len(g) |-> Mul(Unit - b1, g[j]) + Mul(b1, m[j])])

adam_v(v, g) ==
  Arr([j \in 1..Len(g) |-> MulDivNat(g[j] * g[j], Unit - b2, Unit) + MulDivNat(v[j], b2, Unit)])

adam_x(x, m, v, i) ==
  Arr([j \in 1..Len(x) |->
     LET mhat == Div(m[j], Unit - Pow(b1, i + 1))
         vhat == MulDivNat(v[j], Unit, Unit - Pow(b2, i + 1))
     IN x[j] - Mul(step_size, Div(mhat, ISqrt(vhat) + eps))])

(***************************************************************************)
(* The state of an execution of the notebook.  Several executions of the   *)
(* same notebook may run side by side, each in a kernel of its own.        *)
(***************************************************************************)
VARIABLES
  layer_sizes,      \* layer_sizes of both setup_init_nn calls
  num_iters,        \* num_iters of both adam calls
  pc,               \* where each execution is
  run,              \* which training run it is in: "swish" or "periodic"
  t,                \* the sample grid
  params_swish,     \* the global of that name (<<>> while unbound)
  params_periodic,  \* the global of that name (<<>> while unbound)
  x, m, v, g, i,    \* adam's locals (x, m, v and g flattened)
  loss,             \* the loss value of the forward pass of the last grad call
  updates,          \* how many times adam has replaced x in the current run
  cb_calls,         \* how many times adam has called the callback in the current run
  cb_args,          \* the arguments of the last callback call
  output,           \* the lines printed so far
  figure            \* the curves drawn by the plotting cell (<<>> before)

vars == <<layer_sizes, num_iters, pc, run, t, params_swish, params_periodic,
          x, m, v, g, i, loss, updates, cb_calls, cb_args, output, figure>>

Executions == DOMAIN pc

\* an initialisation that draws from one stream shared by all calls instead of
\* seeding its own generator: a later call starts where the stream has got to
setup_init_nn_shared_stream(sc, ls) ==
  init_nn_seeded(Cardinality({e \in Executions : params_swish[e] # <<>>})
                   + Cardinality({e \in Executions : params_periodic[e] # <<>>}),
                 sc, ls)

\* setup_init_nn(scale, layer_sizes): rs = npr.RandomState(0), then the draws
setup_init_nn(sc, ls) == init_nn_seeded(0, sc, ls)

\* layer_sizes = [1, 100, 1], with the hidden width reduced
NotebookLayers == <<1, 2, 1>>

\* layer lists with one input and one output
LayerLists ==
  {<<1, 1>>} \cup {<<1, h, 1>> : h \in 1..MaxWidth} \cup {<<1, MaxWidth, 1, 1>>}

\* the notebook's run (one execution, 4000 iterations) and short runs of two
\* executions side by side
Configs ==
  {[ls |-> NotebookLayers, n |-> num_iters_notebook, execs |-> 1]}
  \cup {[ls |-> ls, n |-> n, execs |-> 2] : ls \in LayerLists, n \in 0..MaxIters}

NoArgs == [params |-> <<>>, step |-> -1, g |-> <<>>]

Init ==
  \E cfg \in Configs :
    /\ layer_sizes = cfg.ls
    /\ num_iters = cfg.n
    /\ pc = [e \in 1..cfg.execs |-> "setup"]
    /\ run = [e \in 1..cfg.execs |-> "swish"]
    /\ t = [e \in 1..cfg.execs |-> reshape_column(linspace(0, Pi * 3, GridLen))]
    /\ params_swish = [e \in 1..cfg.execs |-> <<>>]
    /\ params_periodic = [e \in 1..cfg.execs |-> <<>>]
    /\ x = [e \in 1..cfg.execs |-> <<>>]
    /\ m = [e \in 1..cfg.execs |-> <<>>]
    /\ v = [e \in 1..cfg.execs |-> <<>>]
    /\ g = [e \in 1..cfg.execs |-> <<>>]
    /\ i = [e \in 1..cfg.execs |-> 0]
    /\ loss = [e \in 1..cfg.execs |-> 0]
    /\ updates = [e \in 1..cfg.execs |-> 0]
    /\ cb_calls = [e \in 1..cfg.execs |-> 0]
    /\ cb_args = [e \in 1..cfg.execs |-> NoArgs]
    /\ output = [e \in 1..cfg.execs |-> <<>>]
    /\ figure = [e \in 1..cfg.execs |-> <<>>]

\* the parameter set the current run started from: the global the run's
\* result will be bound to still holds it until adam returns
RunParams(e) == IF run[e] = "swish" THEN params_swish[e] ELSE params_periodic[e]

\* params_swish = setup_init_nn(0.1, ...) / params_periodic = setup_init_nn(0.1, ...)
Setup(e) ==
  /\ pc[e] = "setup"
  /\ IF run[e] = "swish"
     THEN /\ params_swish' = [params_swish EXCEPT ![e] = setup_init_nn(scale, layer_sizes)]
          /\ UNCHANGED params_periodic
     ELSE /\ params_periodic' = [params_periodic EXCEPT ![e] = setup_init_nn(scale, layer_sizes)]
          /\ UNCHANGED params_swish
  /\ pc' = [pc EXCEPT ![e] = "call"]
  /\ UNCHANGED <<layer_sizes, num_iters, run, t, x, m, v, g, i, loss, updates,
                 cb_calls, cb_args, output, figure>>

\* adam(grad(...), params, ...) is entered: x is the flattened copy of the
\* initial parameters, m and v are zero
AdamCall(e) ==
  /\ pc[e] = "call"
  /\ x' = [x EXCEPT ![e] = flatten(RunParams(e))]
  /\ m' = [m EXCEPT ![e] = zeros(Len(flatten(RunParams(e))))]
  /\ v' = [v EXCEPT ![e] = zeros(Len(flatten(RunParams(e))))]
  /\ g' = [g EXCEPT ![e] = <<>>]
  /\ i' = [i EXCEPT ![e] = 0]
  /\ updates' = [updates EXCEPT ![e] = 0]
  /\ cb_calls' = [cb_calls EXCEPT ![e] = 0]
  /\ cb_args' = [cb_args EXCEPT ![e] = NoArgs]
  /\ pc' = [pc EXCEPT ![e] = "loop"]
  /\ UNCHANGED <<layer_sizes, num_iters, run, t, params_swish, params_periodic,
                 loss, output, figure>>

\* a loop that stops one index early
loop_continues_early(e) == i[e] + 1 < num_iters

\* for i in range(num_iters): whether the loop has another index to run
loop_continues(e) == i[e] < num_iters

\* g = grad(x, i)
AdamGrad(e) ==
  /\ pc[e] = "loop"
  /\ loop_continues(e)
  /\ \E vg \in {value_and_grad(run[e], unflatten(x[e], RunParams(e)), i[e], t[e])} :
       /\ g' = [g EXCEPT ![e] = flatten(vg.grad)]
       /\ loss' = [loss EXCEPT ![e] = vg.value]
  /\ t' = [t EXCEPT ![e] = inputs_after_call(unflatten(x[e], RunParams(e)), t[e])]
  /\ pc' = [pc EXCEPT ![e] = "callback"]
  /\ UNCHANGED <<layer_sizes, num_iters, run, params_swish, params_periodic,
                 x, m, v, i, updates, cb_calls, cb_args, output, figure>>

\* a driver that calls the callback after the update of the same index
callback_args_after_update(e) ==
  [params |-> unflatten(adam_x(x[e], adam_m(m[e], g[e]), adam_v(v[e], g[e]), i[e]),
                        RunParams(e)),
   step |-> i[e],
   g |-> unflatten(g[e], RunParams(e))]

\* the arguments adam passes: callback(x, i, g), unflattened
callback_args(e) ==
  [params |-> unflatten(x[e], RunParams(e)), step |-> i[e],
   g |-> unflatten(g[e], RunParams(e))]

\* a callback that counts iterations from one
callback_prints_from_one(step) == (step + 1) % PrintEvery = 0

\* whether callback(params, step, g) prints
callback_prints(step) == step % PrintEvery = 0

\* the line callback(params, step, g) prints
callback_line(params, step, grid) ==
  [step |-> step, value |-> objective(params, step, grid)]

\* if callback: callback(x, i, g)
Callback(e) ==
  /\ pc[e] = "callback"
  /\ LET a == callback_args(e)
     IN /\ cb_args' = [cb_args EXCEPT ![e] = a]
        /\ output' = [output EXCEPT ![e] =
                        IF callback_prints(a.step)
                        THEN Append(@, callback_line(a.params, a.step, t[e]))
                        ELSE @]
        /\ t' = [t EXCEPT ![e] = inputs_after_call(a.params, t[e])]
  /\ cb_calls' = [cb_calls EXCEPT ![e] = @ + 1]
  /\ pc' = [pc EXCEPT ![e] = "update"]
  /\ UNCHANGED <<layer_sizes, num_iters, run, params_swish, params_periodic,
                 x, m, v, g, i, loss, updates, figure>>

\* m, v and x are replaced; the loop goes to its next index
AdamUpdate(e) ==
  /\ pc[e] = "update"
  /\ m' = [m EXCEPT ![e] = adam_m(m[e], g[e])]
  /\ v' = [v EXCEPT ![e] = adam_v(v[e], g[e])]
  /\ x' = [x EXCEPT ![e] = adam_x(x[e], adam_m(m[e], g[e]), adam_v(v[e], g[e]), i[e])]
  /\ i' = [i EXCEPT ![e] = @ + 1]
  /\ updates' = [updates EXCEPT ![e] = @ + 1]
  /\ pc' = [pc EXCEPT ![e] = "loop"]
  /\ UNCHANGED <<layer_sizes, num_iters, run, t, params_swish, params_periodic,
                 g, loss, cb_calls, cb_args, output, figure>>

\* the loop is over: return x (unflattened), bound to the run's global
AdamReturn(e) ==
  /\ pc[e] = "loop"
  /\ ~loop_continues(e)
  /\ IF run[e] = "swish"
     THEN /\ params_swish' = [params_swish EXCEPT ![e] = unflatten(x[e], RunParams(e))]
          /\ UNCHANGED params_periodic
          /\ run' = [run EXCEPT ![e] = "periodic"]
          /\ pc' = [pc EXCEPT ![e] = "setup"]
     ELSE /\ params_periodic' = [params_periodic EXCEPT ![e] = unflatten(x[e], RunParams(e))]
          /\ UNCHANGED params_swish
          /\ UNCHANGED run
          /\ pc' = [pc EXCEPT ![e] = "plot"]
  /\ UNCHANGED <<layer_sizes, num_iters, t, x, m, v, g, i, loss, updates,
                 cb_calls, cb_args, output, figure>>

\* the plotting cell: tfit, and the three curves
Plot(e) ==
  /\ pc[e] = "plot"
  /\ LET tfit == reshape_column(linspace(0, Pi * 6, GridLen))
     IN /\ figure' = [figure EXCEPT ![e] =
                        [swish |-> ode_func(params_swish[e], tfit),
                         sine |-> ode_func_periodic(params_periodic[e], tfit),
                         analytic |-> Arr([r \in 1..Rows(tfit) |-> <<sin(k * tfit[r][1])>>])]]
        /\ params_swish' = [params_swish EXCEPT ![e] = params_after_call(@, tfit)]
        /\ params_periodic' = [params_periodic EXCEPT ![e] = params_after_call(@, tfit)]
  /\ pc' = [pc EXCEPT ![e] = "done"]
  /\ UNCHANGED <<layer_sizes, num_iters, run, t, x, m, v, g, i, loss, updates,
                 cb_calls, cb_args, output>>

Next ==
  \/ \E e \in Executions : Setup(e)
  \/ \E e \in Executions : AdamCall(e)
  \/ \E e \in Executions : AdamGrad(e)
  \/ \E e \in Executions : Callback(e)
  \/ \E e \in Executions : AdamUpdate(e)
  \/ \E e \in Executions : AdamReturn(e)
  \/ \E e \in Executions : Plot(e)

Spec == Init /\ [][Next]_vars

(***************************************************************************)
(* Properties.                                                             *)
(***************************************************************************)
\* the execution is inside adam's loop
InRun(e) == pc[e] \in {"loop", "callback", "update"}

\* adam has returned from the swish run and the periodic run has not been entered
SwishReturned(e) == run[e] = "periodic" /\ pc[e] \in {"setup", "call"}

\* adam has returned from the periodic run
PeriodicReturned(e) == pc[e] \in {"plot", "done"}

\* the parameter set adam's x stands for
CurrentParams(e) == unflatten(x[e], RunParams(e))

\* C1: a run with num_iters = N performs exactly N parameter updates and then
\* returns the final parameter set: the loop index counts the updates, never
\* passes N, adam cannot return before the index reaches N and must return
\* when it does, and what it returns is its x after N updates.
C1_ExactlyNUpdates ==
  \A e \in Executions :
    /\ i[e] \in 0..num_iters
    /\ InRun(e) => updates[e] = i[e]
    /\ (pc[e] = "loop" /\ i[e] < num_iters) => ~ENABLED AdamReturn(e)
    /\ (pc[e] = "loop" /\ i[e] = num_iters) => ENABLED AdamReturn(e) /\ ~ENABLED AdamGrad(e)
    /\ SwishReturned(e) =>
         /\ updates[e] = num_iters
         /\ pc[e] = "setup" => params_swish[e] = unflatten(x[e], params_swish[e])
    /\ PeriodicReturned(e) =>
         /\ updates[e] = num_iters
         /\ pc[e] = "plot" => params_periodic[e] = unflatten(x[e], params_periodic[e])

\* both runs of the notebook's 4000 iterations are over
C1_Witness ==
  \E e \in Executions :
    pc[e] = "done" /\ num_iters = num_iters_notebook /\ updates[e] = 4000

\* C2 as claimed: when the callback is called with iteration index i, the
\* update of index i has already been applied.
C2_CallbackAfterUpdate ==
  \A e \in Executions :
    pc[e] = "update" => updates[e] = cb_args[e].step + 1

\* C2 as amended: the callback is called exactly once per iteration, with
\* consecutive indices from 0, before the update of the same index: it receives
\* the parameters the previous updates produced (the initial ones at index 0)
\* and the gradient taken at them.
C2_CallbackBeforeUpdate ==
  \A e \in Executions :
    /\ InRun(e) => cb_args[e].step = cb_calls[e] - 1
    /\ pc[e] \in {"loop", "callback"} => cb_calls[e] = i[e]
    /\ pc[e] = "update" =>
         /\ cb_calls[e] = i[e] + 1
         /\ updates[e] = cb_args[e].step
         /\ cb_args[e].params = CurrentParams(e)
         /\ cb_args[e].g = unflatten(g[e], RunParams(e))
    /\ (pc[e] = "update" /\ i[e] = 0) => cb_args[e].params = RunParams(e)

\* the callback of index 1 has received parameters that an update produced
C2_Witness ==
  \E e \in Executions :
    pc[e] = "update" /\ i[e] = 1 /\ cb_args[e].params # RunParams(e)

\* the steps a run prints during its first c callbacks: 0, 1000, 2000, ...
PrintedSteps(c) == Arr([n \in 1..((c + PrintEvery - 1) \div PrintEvery) |-> (n - 1) * PrintEvery])

StepsOf(lines) == Arr([n \in 1..Len(lines) |-> lines[n].step])

\* C3: a line is printed at the callback of index i exactly if i mod 1000 = 0,
\* in increasing order of step within a run; a run of 4000 iterations prints
\* the steps 0, 1000, 2000, 3000 and nothing for step 4000.
C3_PrintsEvery1000 ==
  \A e \in Executions :
    LET swish_calls == IF run[e] = "swish" THEN (IF InRun(e) THEN cb_calls[e] ELSE 0)
                       ELSE num_iters
        periodic_calls == IF run[e] = "periodic" /\ ~SwishReturned(e)
                          THEN (IF InRun(e) THEN cb_calls[e] ELSE num_iters)
                          ELSE 0
    IN /\ StepsOf(output[e]) = PrintedSteps(swish_calls) \o PrintedSteps(periodic_calls)
       /\ (pc[e] = "done" /\ num_iters = 4000) =>
            StepsOf(output[e]) = <<0, 1000, 2000, 3000, 0, 1000, 2000, 3000>>

\* both 4000-iteration runs have printed their four lines
C3_Witness ==
  \E e \in Executions :
    pc[e] = "done" /\ num_iters = num_iters_notebook /\ Len(output[e]) = 8
\* the forward model and the derivative operators of a run
RunForward(r, params, inputs) ==
  IF r = "swish" THEN ode_func(params, inputs) ELSE ode_func_periodic(params, inputs)

RunDeriv(r, params, inputs) ==
  IF r = "swish" THEN deriv_ode_func(params, inputs)
  ELSE deriv_ode_func_periodic(params, inputs)

RunDeriv2(r, params, inputs) ==
  IF r = "swish" THEN deriv_2_ode_func(params, inputs)
  ELSE deriv_2_ode_func_periodic(params, inputs)

\* mean over the grid of (y'' + k*k*y)^2, plus (y'(0) - k)^2, plus (y''(0))^2
ClaimedLoss(r, params, grid) ==
  LET y == RunForward(r, params, grid)
      d2y == RunDeriv2(r, params, grid)
      dy0 == RunDeriv(r, params, Scalar(0))[1][1]
      d2y0 == RunDeriv2(r, params, Scalar(0))[1][1]
  IN SumSeq(Arr([n \in 1..Rows(grid) |-> Sq(d2y[n][1] + k * k * y[n][1])])) \div Rows(grid)
       + Sq(dy0 - k * Unit) + Sq(d2y0)

RECURSIVE LayerOutput(_, _, _, _)
LayerOutput(act, params, n, inputs) ==
  LET W == params[n][1]
      b == params[n][2]
      below == IF n = 1 THEN inputs
               ELSE LET out == LayerOutput(act, params, n - 1, inputs)
                    IN Arr([r \in 1..Rows(out) |->
                              Arr([c \in 1..Cols(out) |-> Act(act, out[r][c])])])
  IN Arr([r \in 1..Rows(below) |->
            Arr([c \in 1..Cols(W) |->
                   SumSeq(Arr([j \in 1..Rows(W) |-> Mul(below[r][j], W[j][c])])) + b[c]])])

\* act(x*W1 + b1)*W2 + b2 for layer sizes [1, H, 1]
TwoLayer(act, params, inputs) ==
  Arr([r \in 1..Rows(inputs) |->
         << SumSeq(Arr([j \in 1..Len(params[1][2]) |->
                          Mul(Act(act, Mul(inputs[r][1], params[1][1][1][j]) + params[1][2][j]),
                              params[2][1][j][1])]))
            + params[2][2][1] >>])

\* C5: the forward model returns the raw affine output of the last layer and
\* applies the activation to the affine output of every earlier layer; for
\* layer sizes [1, H, 1] that is act(x*W1 + b1)*W2 + b2.
C5_ForwardModel ==
  \A e \in Executions :
    /\ pc[e] = "call" =>
         /\ ode_func(RunParams(e), t[e]) = LayerOutput("swish", RunParams(e), Len(RunParams(e)), t[e])
         /\ ode_func_periodic(RunParams(e), t[e])
              = LayerOutput("periodic", RunParams(e), Len(RunParams(e)), t[e])
         /\ Len(layer_sizes) = 3 =>
              /\ ode_func(RunParams(e), t[e]) = TwoLayer("swish", RunParams(e), t[e])
              /\ ode_func_periodic(RunParams(e), t[e]) = TwoLayer("periodic", RunParams(e), t[e])
    /\ pc[e] = "done" =>
         LET tfit == reshape_column(linspace(0, Pi * 6, GridLen))
         IN /\ figure[e].swish = LayerOutput("swish", params_swish[e], Len(params_swish[e]), tfit)
            /\ figure[e].sine
                 = LayerOutput("periodic", params_periodic[e], Len(params_periodic[e]), tfit)

\* the curves of a trained three-layer network have been drawn
C5_Witness ==
  \E e \in Executions :
    /\ pc[e] = "done" /\ Len(params_periodic[e]) = 3 /\ num_iters >= 1
    /\ figure[e].sine # figure[e].swish

\* a parameter set of Len(ls) - 1 (weight, bias) pairs whose shapes follow ls
WellShaped(params, ls) ==
  /\ Len(params) = Len(ls) - 1
  /\ \A n \in 1..Len(params) :
       /\ Len(params[n]) = 2
       /\ Len(params[n][1]) = ls[n]
       /\ \A r \in 1..Len(params[n][1]) : Len(params[n][1][r]) = ls[n + 1]
       /\ Len(params[n][2]) = ls[n + 1]
       /\ n < Len(params) => Len(params[n][2]) = Len(params[n + 1][1])

\* the number of entries of a parameter set for ls
ParamCount(ls) == DrawsBefore(ls, Len(ls))

\* every layer list of two or three entries with widths 1..MaxWidth + 1
ShapeLists ==
  {<<a, b>> : a \in 1..(MaxWidth + 1), b \in 1..(MaxWidth + 1)}
  \cup {<<a, b, c>> : a \in 1..(MaxWidth + 1), b \in 1..(MaxWidth + 1), c \in 1..(MaxWidth + 1)}

\* C6: setup_init_nn returns Len(layer_sizes) - 1 pairs, pair n with a weight
\* matrix of layer_sizes[n] rows by layer_sizes[n+1] columns and a bias of
\* length layer_sizes[n+1], so consecutive layers compose; the same holds of
\* the parameters of every optimization step and of what adam returns.  The
\* first conjunct applies setup_init_nn to every list of ShapeLists.
C6_ShapesCompose ==
  \A e \in Executions :
    /\ pc[e] = "call" => \A ls \in ShapeLists : WellShaped(setup_init_nn(scale, ls), ls)
    /\ params_swish[e] # <<>> => WellShaped(params_swish[e], layer_sizes)
    /\ params_periodic[e] # <<>> => WellShaped(params_periodic[e], layer_sizes)
    /\ InRun(e) =>
         /\ Len(x[e]) = ParamCount(layer_sizes)
         /\ WellShaped(CurrentParams(e), layer_sizes)
    /\ pc[e] = "update" =>
         /\ WellShaped(cb_args[e].params, layer_sizes)
         /\ WellShaped(cb_args[e].g, layer_sizes)

\* both runs of a four-entry layer list are over
C6_Witness ==
  \E e \in Executions :
    /\ pc[e] = "done" /\ Len(layer_sizes) = 4 /\ num_iters = MaxIters
    /\ params_swish[e] # setup_init_nn(scale, layer_sizes)

C8_GridImmutable ==
  \A e \in Executions : t[e] = reshape_column(linspace(0, Pi * 3, GridLen))

\* the grid after both runs have evaluated the loss and the callback has printed
C8_Witness ==
  \E e \in Executions :
    pc[e] = "done" /\ num_iters >= 1 /\ Len(output[e]) = 2 /\ Rows(t[e]) = GridLen

\* C9: adam's x changes only when adam is entered or makes an update, one
\* update per step; once the swish run has returned params_swish is not
\* changed by anything that follows, and neither params_swish nor
\* params_periodic is changed by the plotting cell.
C9_ParamsFrame ==
  [][\A e \in Executions :
       /\ run[e] = "periodic" => params_swish'[e] = params_swish[e]
       /\ PeriodicReturned(e) => params_periodic'[e] = params_periodic[e]
       /\ x'[e] # x[e] => pc[e] \in {"call", "update"}
       /\ updates'[e] # updates[e] =>
            \/ pc[e] = "call" /\ updates'[e] = 0
            \/ pc[e] = "update" /\ updates'[e] = updates[e] + 1]_vars

\* the plotting cell has run on two trained parameter sets that differ
C9_Witness ==
  \E e \in Executions :
    /\ pc[e] = "done" /\ figure[e] # <<>> /\ num_iters >= 1
    /\ params_swish[e] # params_periodic[e]

\* C10 as claimed: the value in a printed line is the value, at the parameters
\* passed to the callback, of the loss the run is minimizing.
C10_PrintedLossIsRunLoss ==
  \A e \in Executions :
    (pc[e] = "update" /\ callback_prints(cb_args[e].step)) =>
      output[e][Len(output[e])].value
        = Loss(run[e], cb_args[e].params, cb_args[e].step, t[e])

====
